---- MODULE Spec2Model ----
(***************************************************************************)
(* Model of the token-acquisition program of Minecraft-Console-Client:     *)
(* main (src/main.rs), get_config (src/config.rs), the cache store         *)
(* (src/cache.rs) and the authenticate pipeline (src/authentication.rs).   *)
(*                                                                         *)
(* Text values whose content matters (tokens, codes, payload strings) are  *)
(* sequences of one-character strings, so that concatenation and length    *)
(* are computed as the code computes them.  Labels (program positions,     *)
(* paths, endpoints, fixed console messages) are plain strings.            *)
(***************************************************************************)
EXTENDS Integers, Sequences, FiniteSets, TLC

(***************************************************************************)
(* Bounds of the model.                                                    *)
(***************************************************************************)
\* the clock runs from second 0 to second MaxTime
MaxTime == 2
\* the clock's resolution: chrono instants are counted in ticks, this many to
\* the second
TicksPerSecond == 2
\* a remote service answers expires_in in 1..MaxExpiresIn
MaxExpiresIn == 2
\* the i32 values -MaxSmall..MaxSmall are all encoded, next to the edge values
MaxSmall == 64

(***************************************************************************)
(* Program constants.                                                      *)
(***************************************************************************)
CLIENT_ID == "54473e32-df8f-42e9-a649-9419b0dab9d3"
CACHE_PATH == "cache.toml"
CONFIG_PATH == "config.toml"
INDEX_HTML_PATH == "index.html"
AUTHORIZATION_TOKEN_PATH == "authorization_token.json"
XBOX_TOKEN_PATH == "xbox_token.json"
XBOX_SECURITY_TOKEN_PATH == "xbox_security_token.json"
\* the game-service response written over the cache file
MINECRAFT_TOKEN_PATH_is_cache == "cache.toml"
MINECRAFT_TOKEN_PATH == "minecraft_token.json"
MINECRAFT_PROFILE_PATH == "minecraft_profile.json"

AUTHORIZE_URL == "https://login.microsoftonline.com/consumers/oauth2/v2.0/authorize"
TOKEN_URL == "https://login.microsoftonline.com/consumers/oauth2/v2.0/token"
XBOX_AUTHENTICATE_URL == "https://user.auth.xboxlive.com/user/authenticate"
XSTS_AUTHORIZE_URL == "https://xsts.auth.xboxlive.com/xsts/authorize"
LOGIN_WITH_XBOX_URL == "https://api.minecraftservices.com/authentication/login_with_xbox"
PROFILE_URL == "https://api.minecraftservices.com/minecraft/profile"

Paths ==
    { CACHE_PATH, CONFIG_PATH, INDEX_HTML_PATH, AUTHORIZATION_TOKEN_PATH,
      XBOX_TOKEN_PATH, XBOX_SECURITY_TOKEN_PATH, MINECRAFT_TOKEN_PATH,
      MINECRAFT_PROFILE_PATH }

(***************************************************************************)
(* Input domains: what the files, the user and the remote services may     *)
(* hold or answer.                                                         *)
(***************************************************************************)
EmptyString == << >>
NewLine == << "\n" >>

\* values of the persisted record when the run starts
StoredRefreshTokens == { EmptyString, <<"r", "0">> }
StoredMinecraftTokens == { <<"m", "0">> }
\* values the remote services answer
AccessTokens == { <<"a", "1">> }
RefreshTokens == { <<"r", "1">> }
XboxTokens == { <<"x", "1">> }
XstsTokens == { <<"s", "1">> }
UserHashes == { <<"h", "1">> }
MinecraftTokens == { <<"m", "1">>, <<"m", "2">> }
LoginPages == { <<"<", "h", "t", "m", "l", ">">> }
\* what the user types before pressing enter
TypedCodes == { <<"c", "1">>, <<"c", "2">> }
StatusCodes == { 200, 401 }
ExpiresIn == 1..MaxExpiresIn
\* chrono::DateTime<Utc> values of the clock, in ticks
Instants == 0..(MaxTime * TicksPerSecond)
\* the whole seconds a timestamp text can name
Seconds == 0..(MaxTime + MaxExpiresIn)

(***************************************************************************)
(* The file system: every path holds a content record.                     *)
(***************************************************************************)
Absent == [kind |-> "absent"]
\* a file whose text does not decode as the structure its reader expects
Malformed == [kind |-> "malformed"]
Text(body) == [kind |-> "text", body |-> body]
Toml(value) == [kind |-> "toml", value |-> value]
Json(value) == [kind |-> "json", value |-> value]

NoValue == [kind |-> "none"]
Ok(value) == [kind |-> "Ok", value |-> value]
Err(error) == [kind |-> "Err", error |-> error]

\* a call into the cache store: the operation, how its file access went, and
\* what it returned
Returned(op, io, result) == [op |-> op, io |-> io, result |-> result]
NoCall == Returned("none", "none", NoValue)

\* toml_edit::Datetime: an instant in whole seconds, with or without the
\* UTC offset part (a local date-time is a well-formed TOML timestamp)
TomlDatetime(secs, offset) == [secs |-> secs, has_offset |-> offset]

CachedSessionToken(token, expiry_time) ==
    [token |-> token, expiry_time |-> expiry_time]

Cache(microsoft_refresh_token, minecraft_token) ==
    [microsoft_refresh_token |-> microsoft_refresh_token,
     minecraft_token |-> minecraft_token]

Config(cache_enabled) == [cache_enabled |-> cache_enabled]

\* impl Default for Cache: empty secrets, expiry 2011-11-18T12:00:00Z, an
\* instant before every instant of the clock
Cache_default == Cache(EmptyString, CachedSessionToken(EmptyString, TomlDatetime(0, TRUE)))

\* impl Default for Config
Config_default == Config(TRUE)

(***************************************************************************)
(* Text forms of the cache record (toml_edit, chrono).  The seconds of a   *)
(* timestamp are one element of its text, the UTC designator "Z" the next. *)
(***************************************************************************)
\* the seconds a text element names, when it names any
is_seconds(element) == \E n \in Seconds : ToString(n) = element
seconds_of(element) == CHOOSE n \in Seconds : ToString(n) = element

\* a String as a TOML basic string
TomlString(s) == << "\"" >> \o s \o << "\"" >>

\* a TOML basic string back to the String it holds
string_from_toml(literal) ==
    IF Len(literal) >= 2 /\ literal[1] = "\"" /\ literal[Len(literal)] = "\""
    THEN Ok(SubSeq(literal, 2, Len(literal) - 1))
    ELSE Err("Decode")

\* Display of a toml_edit::Datetime written without its offset
Datetime_to_string_local(self) == << ToString(self.secs) >>

\* Display of toml_edit::Datetime: date and time, then the offset when the
\* value has one
Datetime_to_string(self) ==
    << ToString(self.secs) >> \o (IF self.has_offset THEN << "Z" >> ELSE << >>)

\* toml_edit::Datetime::from_str: the offset is optional
Datetime_from_str(s) ==
    IF /\ Len(s) \in { 1, 2 }
       /\ is_seconds(s[1])
       /\ Len(s) = 2 => s[2] = "Z"
    THEN Ok(TomlDatetime(seconds_of(s[1]), Len(s) = 2))
    ELSE Err("Decode")

\* chrono::DateTime::<Utc>::from_str: RFC 3339, the offset is required
DateTime_from_str(s) ==
    IF Len(s) = 2 /\ is_seconds(s[1]) /\ s[2] = "Z"
    THEN Ok(seconds_of(s[1]) * TicksPerSecond)
    ELSE Err("Parse")

\* to_rfc3339_opts rounding up to the next whole second
to_rfc3339_opts_rounded_up(instant) ==
    << ToString((instant + TicksPerSecond - 1) \div TicksPerSecond), "Z" >>

\* DateTime::to_rfc3339_opts(SecondsFormat::Secs, true): the fraction of the
\* second is dropped, the offset is written as Z
to_rfc3339_opts(instant) == << ToString(instant \div TicksPerSecond), "Z" >>

\* toml_edit::easy::to_string_pretty of a Cache: the document, each value as
\* the text of its literal
to_string_pretty(self) ==
    [microsoft_refresh_token |-> TomlString(self.microsoft_refresh_token),
     minecraft_token |->
         [token |-> TomlString(self.minecraft_token.token),
          expiry_time |-> Datetime_to_string(self.minecraft_token.expiry_time)]]

\* toml_edit::easy::from_str::<Cache>: every field present and every literal
\* of the field's type
from_str(document) ==
    IF /\ { "microsoft_refresh_token", "minecraft_token" } \subseteq DOMAIN document
       /\ { "token", "expiry_time" } \subseteq DOMAIN document.minecraft_token
       /\ string_from_toml(document.microsoft_refresh_token).kind = "Ok"
       /\ string_from_toml(document.minecraft_token.token).kind = "Ok"
       /\ Datetime_from_str(document.minecraft_token.expiry_time).kind = "Ok"
    THEN Ok(Cache(string_from_toml(document.microsoft_refresh_token).value,
                  CachedSessionToken(
                      string_from_toml(document.minecraft_token.token).value,
                      Datetime_from_str(document.minecraft_token.expiry_time).value)))
    ELSE Err("Decode")

\* the text of a cache document when the write stopped before its last
\* element: the document without the end of its last line
cut_short(content) ==
    IF content.kind = "toml" /\ "minecraft_token" \in DOMAIN content.value
    THEN Toml([content.value EXCEPT
                 !.minecraft_token.expiry_time = SubSeq(@, 1, Len(@) - 1)])
    ELSE Malformed

StoredExpiryTimes ==
    { TomlDatetime(s, TRUE) : s \in 0..MaxTime } \cup { TomlDatetime(0, FALSE) }

StoredCaches ==
    { Cache(r, CachedSessionToken(t, e)) :
        r \in StoredRefreshTokens, t \in StoredMinecraftTokens, e \in StoredExpiryTimes }

InitialCacheFiles ==
    { Absent, Malformed } \cup { Toml(to_string_pretty(c)) : c \in StoredCaches }
InitialConfigFiles == { Absent, Malformed, Toml(Config(TRUE)), Toml(Config(FALSE)) }

\* outcome of std::fs::write: done, failed before touching the file, failed
\* after truncating it, or stopped before the last bytes were written
WriteOutcomes == { "ok", "unchanged", "truncated", "partial" }
\* outcome of std::fs::read_to_string / std::fs::read on an existing file
ReadOutcomes == { "ok", "denied" }

VARIABLES
    pc,                        \* position of the program
    now,                       \* chrono::Utc::now()
    fs,                        \* path -> content
    stdout,                    \* what println!/print! have emitted
    config,                    \* main: config
    fs_cache_exists,           \* main: fs_cache_exists
    cache,                     \* main: cache
    calls,                     \* requests issued through the reqwest client, in order
    inflight,                  \* requests issued whose response is not yet consumed
    reply,                     \* the response that has arrived for the request in flight
    code,                      \* authenticate: code
    authorization_token,       \* authenticate: authorization_token
    xbox_resp,                 \* authenticate: xbox_resp
    xbox_security_token_resp,  \* authenticate: xbox_security_token_resp
    minecraft_resp,            \* authenticate: minecraft_resp
    authenticate_result,       \* what authenticate returned to main
    fs_ops,                    \* the file reads and writes performed, in order
    fs_start,                  \* the files as they were when the run started
    ret,                       \* what the last call into the cache store returned
    previous_run,              \* what the run before this one returned
    i32_value,                 \* the i32 handed to the var-int encoders
    var_int,                   \* VarInt::from(value)
    slice,                     \* var_int.as_slice()
    i32_back,                  \* i32::from(var_int)
    param_int,                 \* get_var_int: param_int
    bytes                      \* get_var_int: bytes

vars ==
    << pc, now, fs, stdout, config, fs_cache_exists, cache, calls, inflight, reply,
       code, authorization_token, xbox_resp, xbox_security_token_resp, minecraft_resp,
       authenticate_result, fs_ops, fs_start, ret, previous_run,
       i32_value, var_int, slice, i32_back, param_int, bytes >>

netVars == << calls, inflight, reply >>
authLocals ==
    << code, authorization_token, xbox_resp, xbox_security_token_resp, minecraft_resp >>
mainLocals == << config, fs_cache_exists, cache >>
\* the state of the var-int encoders (src/protocol/encoding/var_int.rs,
\* src/get_server_info.rs)
codecVars == << i32_value, var_int, slice, i32_back, param_int, bytes >>
\* left alone by every step of main and authenticate
history == << fs_start, ret, previous_run, codecVars >>

\* no run has been before this one
NoRun == [kind |-> "none"]

\* the var-int encoders have not been called
CodecIdle ==
    /\ i32_value = 0
    /\ var_int = NoValue
    /\ slice = NoValue
    /\ i32_back = NoValue
    /\ param_int = 0
    /\ bytes = << >>

Init ==
    /\ pc = "main"
    /\ now = 0
    /\ \E cfg \in InitialConfigFiles, cf \in InitialCacheFiles :
         fs = [p \in Paths |->
                 IF p = CONFIG_PATH THEN cfg ELSE IF p = CACHE_PATH THEN cf ELSE Absent]
    /\ fs_start = fs
    /\ fs_ops = << >>
    /\ ret = NoCall
    /\ previous_run = NoRun
    /\ CodecIdle
    /\ stdout = << >>
    /\ config = NoValue
    /\ fs_cache_exists = FALSE
    /\ cache = NoValue
    /\ calls = << >>
    /\ inflight = {}
    /\ reply = NoValue
    /\ code = NoValue
    /\ authorization_token = NoValue
    /\ xbox_resp = NoValue
    /\ xbox_security_token_resp = NoValue
    /\ minecraft_resp = NoValue
    /\ authenticate_result = NoValue

(***************************************************************************)
(* Helpers shared by the operations.                                       *)
(***************************************************************************)
\* println!(msg, arg): one record per call, the formatted argument as text
Println(msg, arg) == Append(stdout, [msg |-> msg, arg |-> arg])

\* std::fs::write(path, content) with the given outcome
fs_write(files, path, content, outcome) ==
    CASE outcome = "ok" -> [files EXCEPT ![path] = content]
      [] outcome = "truncated" -> [files EXCEPT ![path] = Malformed]
      [] outcome = "partial" -> [files EXCEPT ![path] = cut_short(content)]
      [] OTHER -> files

\* one entry of the log of file operations
FsOp(op, path, outcome) == [op |-> op, path |-> path, outcome |-> outcome]

\* how a read of path ends: the file is not there, or the given outcome
read_outcome(files, path, read) ==
    IF files[path].kind = "absent" THEN "not_found" ELSE read

\* the clock advances
Tick ==
    /\ pc \notin { "exit_ok", "exit_err", "panicked" }
    /\ now < MaxTime * TicksPerSecond
    /\ now' = now + 1
    /\ UNCHANGED << pc, fs, stdout, mainLocals, netVars, authLocals, authenticate_result,
                    fs_ops, history >>

(***************************************************************************)
(* Cache store (src/cache.rs).                                             *)
(***************************************************************************)
Some(value) == [kind |-> "Some", value |-> value]
None == NoValue
Panic == [kind |-> "panic"]

\* Cache::get taking every failed read as "no cache"
Cache_get_lenient(files, read) ==
    CASE files[CACHE_PATH].kind = "absent" -> Ok(None)
      [] read = "denied" -> Ok(None)
      [] files[CACHE_PATH].kind = "toml" ->
            LET decoded == from_str(files[CACHE_PATH].value)
            IN  IF decoded.kind = "Ok" THEN Ok(Some(decoded.value)) ELSE decoded
      [] OTHER -> Err("Decode")

\* Cache::get: NotFound is "no cache", any other read failure and a record
\* that does not decode are errors
Cache_get(files, read) ==
    CASE files[CACHE_PATH].kind = "absent" -> Ok(None)
      [] read = "denied" -> Err("Io")
      [] files[CACHE_PATH].kind = "toml" ->
            LET decoded == from_str(files[CACHE_PATH].value)
            IN  IF decoded.kind = "Ok" THEN Ok(Some(decoded.value)) ELSE decoded
      [] OTHER -> Err("Decode")

\* Cache::save: the file after std::fs::write of the serialised record
Cache_save(self, files, write) ==
    fs_write(files, CACHE_PATH, Toml(to_string_pretty(self)), write)

\* get_token with the comparison turned around
get_token_flipped(self, t) ==
    LET expiry_time == DateTime_from_str(Datetime_to_string(self.expiry_time))
    IN  IF expiry_time.kind = "Err"
        THEN Panic
        ELSE IF expiry_time.value < t THEN Some(self.token) ELSE None

\* get_token that also yields the token at the instant of expiry
get_token_inclusive(self, t) ==
    LET expiry_time == DateTime_from_str(Datetime_to_string(self.expiry_time))
    IN  IF expiry_time.kind = "Err"
        THEN Panic
        ELSE IF expiry_time.value >= t THEN Some(self.token) ELSE None

\* CachedSessionToken::get_token at the instant t: the expiry text is parsed
\* as an RFC 3339 instant (a timestamp without offset does not parse: panic),
\* then compared with the clock
get_token(self, t) ==
    LET expiry_time == DateTime_from_str(Datetime_to_string(self.expiry_time))
    IN  IF expiry_time.kind = "Err"
        THEN Panic
        ELSE IF expiry_time.value > t THEN Some(self.token) ELSE None

\* Cache::get_minecraft_token
get_minecraft_token(self, t) == get_token(self.minecraft_token, t)

\* Cache::get_microsoft_refresh_token
get_microsoft_refresh_token(self) == self.microsoft_refresh_token

\* CachedSessionToken::new: the expiry is formatted with second precision and
\* the Z suffix, then parsed as a TOML timestamp
CachedSessionToken_new(token, expiry_time) ==
    CachedSessionToken(token, Datetime_from_str(to_rfc3339_opts(expiry_time)).value)

\* Cache::save_minecraft_token: the record in memory after the assignment
save_minecraft_token(self, token, expiry_time) ==
    [self EXCEPT !.minecraft_token = CachedSessionToken_new(token, expiry_time)]

\* Cache::save_microsoft_refresh_token: the record in memory after the assignment
save_microsoft_refresh_token(self, token) ==
    [self EXCEPT !.microsoft_refresh_token = token]

(***************************************************************************)
(* main and get_config (src/main.rs, src/config.rs).                       *)
(***************************************************************************)
\* main returns Err (the ? operator)
Exit_err ==
    pc' = "exit_err"

\* the config flag read as set whatever the file says
cache_enabled_ignored(cfg) == TRUE

\* config.cache_enabled
cache_enabled(cfg) == cfg.cache_enabled

\* get_config: read config.toml; create it with the default when it is absent
Main_GetConfig ==
    /\ pc = "main"
    /\ \E read \in ReadOutcomes, write \in WriteOutcomes :
         CASE fs[CONFIG_PATH].kind = "absent" ->
                /\ fs_ops' = fs_ops \o << FsOp("read", CONFIG_PATH, "not_found"),
                                          FsOp("write", CONFIG_PATH, write) >>
                /\ stdout' = Println("Existing config could not be found, creating new config at {}",
                                     EmptyString)
                /\ fs' = fs_write(fs, CONFIG_PATH, Toml(Config_default), write)
                /\ IF write = "ok"
                   THEN config' = Config_default /\ pc' = "main_cache"
                   ELSE config' = config /\ Exit_err
           [] read = "denied" ->
                /\ fs_ops' = Append(fs_ops, FsOp("read", CONFIG_PATH, read))
                /\ Exit_err
                /\ UNCHANGED << fs, stdout, config >>
           [] fs[CONFIG_PATH].kind = "toml" ->
                /\ fs_ops' = Append(fs_ops, FsOp("read", CONFIG_PATH, read))
                /\ config' = fs[CONFIG_PATH].value
                /\ pc' = "main_cache"
                /\ UNCHANGED << fs, stdout >>
           [] OTHER ->
                /\ fs_ops' = Append(fs_ops, FsOp("read", CONFIG_PATH, read))
                /\ Exit_err
                /\ UNCHANGED << fs, stdout, config >>
    /\ UNCHANGED << now, fs_cache_exists, cache, netVars, authLocals, authenticate_result,
                    history >>

\* main: the cache is read only when caching is enabled; without a record the
\* default record stands in
Main_GetCache ==
    /\ pc = "main_cache"
    /\ \E read \in ReadOutcomes :
         LET fs_cache == IF cache_enabled(config) THEN Cache_get(fs, read) ELSE Ok(None)
         IN  /\ fs_ops' = IF cache_enabled(config)
                          THEN Append(fs_ops,
                                      FsOp("read", CACHE_PATH, read_outcome(fs, CACHE_PATH, read)))
                          ELSE fs_ops
             /\ IF fs_cache.kind = "Err"
                THEN /\ Exit_err
                     /\ UNCHANGED << fs_cache_exists, cache >>
                ELSE /\ fs_cache_exists' = (fs_cache.value.kind = "Some")
                     /\ cache' = IF fs_cache.value.kind = "Some"
                                 THEN fs_cache.value.value
                                 ELSE Cache_default
                     /\ pc' = "authenticate"
    /\ UNCHANGED << now, fs, stdout, config, netVars, authLocals, authenticate_result,
                    history >>

(***************************************************************************)
(* Requests and responses of the remote exchanges                          *)
(* (src/authentication.rs).  Struct fields the program never reads         *)
(* (token_type, scope, issue_instant, ...) are left out of the records.    *)
(***************************************************************************)
\* step 1: the login page
AuthorizeRequest ==
    [method |-> "GET", url |-> AUTHORIZE_URL,
     form |-> [client_id |-> CLIENT_ID, response_type |-> "code",
               scope |-> "XboxLive.signin%20offline_access"]]

\* the token exchange with another grant
TokenRequest_refresh_grant(user_code) ==
    [method |-> "POST", url |-> TOKEN_URL,
     form |-> [client_id |-> CLIENT_ID, code |-> user_code,
               grant_type |-> "refresh_token",
               redirect_uri |-> "https://mccteam.github.io/redirect.html"]]

\* step 2: authorization code -> authorization token
TokenRequest(user_code) ==
    [method |-> "POST", url |-> TOKEN_URL,
     form |-> [client_id |-> CLIENT_ID, code |-> user_code,
               grant_type |-> "authorization_code",
               redirect_uri |-> "https://mccteam.github.io/redirect.html"]]

\* format!("d={}", access_token)
RpsTicket(access_token) == <<"d", "=">> \o access_token

\* step 3: xbox_authenticate_json
XboxAuthenticateJson(access_token) ==
    [Properties |-> [AuthMethod |-> "RPS", SiteName |-> "user.auth.xboxlive.com",
                     RpsTicket |-> RpsTicket(access_token)],
     RelyingParty |-> "http://auth.xboxlive.com", TokenType |-> "JWT"]

XboxRequest(access_token) ==
    [method |-> "POST", url |-> XBOX_AUTHENTICATE_URL,
     json |-> XboxAuthenticateJson(access_token)]

\* step 4 posted to the endpoint of step 3
XstsRequest_to_xbox_endpoint(xbox_token) ==
    [method |-> "POST", url |-> XBOX_AUTHENTICATE_URL,
     json |-> [Properties |-> [SandboxId |-> "RETAIL", UserTokens |-> << xbox_token >>],
               RelyingParty |-> "rp://api.minecraftservices.com/", TokenType |-> "JWT"]]

\* step 4: xbox token -> xbox security token
XstsRequest(xbox_token) ==
    [method |-> "POST", url |-> XSTS_AUTHORIZE_URL,
     json |-> [Properties |-> [SandboxId |-> "RETAIL", UserTokens |-> << xbox_token >>],
               RelyingParty |-> "rp://api.minecraftservices.com/", TokenType |-> "JWT"]]

\* the identity string with its two arguments exchanged
IdentityToken_swapped(user_hash, xsts_token) ==
    <<"X", "B", "L", "3", ".", "0", " ", "x", "=">> \o xsts_token \o <<";">> \o user_hash

\* format!("XBL3.0 x={user_hash};{xsts_token}")
IdentityToken(user_hash, xsts_token) ==
    <<"X", "B", "L", "3", ".", "0", " ", "x", "=">> \o user_hash \o <<";">> \o xsts_token

\* step 5: authenticate with minecraft
LoginRequest(user_hash, xsts_token) ==
    [method |-> "POST", url |-> LOGIN_WITH_XBOX_URL,
     json |-> [identityToken |-> IdentityToken(user_hash, xsts_token)]]

\* step 6: the profile, with the minecraft token as bearer
ProfileRequest(minecraft_token) ==
    [method |-> "GET", url |-> PROFILE_URL, bearer_auth |-> minecraft_token]

\* display_claims values a platform response may carry
DisplayClaims(user_hash) == [xui |-> << [uhs |-> user_hash] >>]
ClaimsWithoutXui == [xid |-> << >>]
ClaimsEmptyXui == [xui |-> << >>]
ClaimsWithoutUhs == [xui |-> << [gtg |-> <<"g">>] >>]

ClaimsValues ==
    { DisplayClaims(h) : h \in UserHashes }
        \cup { ClaimsWithoutXui, ClaimsEmptyXui, ClaimsWithoutUhs }

Garbage == [kind |-> "garbage"]
\* a JSON object of another shape, such as an error document
ErrorDocument == Json([error |-> <<"e">>])

\* the bodies a service may answer to a request to url
ResponseBodies(url) ==
    CASE url = AUTHORIZE_URL -> { Text(page) : page \in LoginPages }
      [] url = TOKEN_URL ->
            { Garbage, ErrorDocument }
                \cup { Json([access_token |-> a, refresh_token |-> r, expires_in |-> e]) :
                         a \in AccessTokens, r \in RefreshTokens, e \in ExpiresIn }
      [] url = XBOX_AUTHENTICATE_URL ->
            { Garbage, ErrorDocument }
                \cup { Json([Token |-> t, DisplayClaims |-> c]) :
                         t \in XboxTokens, c \in ClaimsValues }
      [] url = XSTS_AUTHORIZE_URL ->
            { Garbage, ErrorDocument }
                \cup { Json([Token |-> t, DisplayClaims |-> DisplayClaims(h)]) :
                         t \in XstsTokens, h \in UserHashes }
      [] url = LOGIN_WITH_XBOX_URL ->
            { Garbage, ErrorDocument }
                \cup { Json([access_token |-> t, expires_in |-> e]) :
                         t \in MinecraftTokens, e \in ExpiresIn }
      [] OTHER ->
            { Garbage, ErrorDocument, Json([id |-> <<"i">>, name |-> <<"n">>]) }

TransportError == [kind |-> "transport_error"]
HttpResponse(status, body) == [kind |-> "http", status |-> status, body |-> body]

\* what can come back for a request: no response at all, or a status and a body
Responses(url) ==
    { TransportError }
        \cup { HttpResponse(s, b) : s \in StatusCodes, b \in ResponseBodies(url) }

\* .send().await?.json::<T>().await? for a struct T with the given fields: the
\* status is not looked at; the body has to be a JSON object with every field
json(response, fields) ==
    CASE response.kind = "transport_error" -> Err("Transport")
      [] response.body.kind = "json" /\ fields \subseteq DOMAIN response.body.value ->
            Ok(response.body.value)
      [] OTHER -> Err("Decode")

\* .send().await?.text().await?
text(response) ==
    IF response.kind = "transport_error" THEN Err("Transport") ELSE Ok(response.body.body)

AuthorizationTokenResponse == { "access_token", "refresh_token", "expires_in" }
XboxLiveAuthenticationResponse == { "Token", "DisplayClaims" }
MinecraftAuthenticationResponse == { "access_token", "expires_in" }
MinecraftProfileResponse == { "id", "name" }

\* &xbox_resp.display_claims["xui"][0]["uhs"]: indexing panics on a missing
\* key and on an empty list
user_hash(resp) ==
    LET claims == resp.DisplayClaims
    IN  IF /\ "xui" \in DOMAIN claims
           /\ Len(claims.xui) >= 1
           /\ "uhs" \in DOMAIN claims.xui[1]
        THEN Some(claims.xui[1].uhs)
        ELSE Panic

\* {:?} of a String
Quote(s) == << "\"" >> \o s \o << "\"" >>

\* {:#?} of a platform response: the token, then the user hash when present
DebugXbox(resp) ==
    Quote(resp.Token)
        \o (IF user_hash(resp).kind = "Some" THEN Quote(user_hash(resp).value) ELSE EmptyString)

\* what the user's terminal gives to read_line: the typed text with its line
\* terminator, or nothing at end of input
StdinLines == { c \o NewLine : c \in TypedCodes } \cup { EmptyString }

\* io::stdin().read_line(&mut buffer)?: the buffer filled, or a read error
StdinOutcomes == { Ok(l) : l \in StdinLines } \cup { Err("Io") }

(***************************************************************************)
(* authenticate (src/authentication.rs): one action per stretch of code    *)
(* between two suspension points.                                          *)
(***************************************************************************)
FromCache == [tag |-> "FromCache"]
FromUserLogin(microsoft_token, expires_in) ==
    [tag |-> "FromUserLogin", microsoft_token |-> microsoft_token, expires_in |-> expires_in]
AuthenticationResult(minecraft_token, retrieve_type) ==
    [minecraft_token |-> minecraft_token, retrieve_type |-> retrieve_type]

\* the cache argument main passes: Some(&cache) when the file held a record
cache_argument == IF fs_cache_exists THEN Some(cache) ELSE None

\* lines 92-104: the cached token when a cache is supplied, None otherwise
cached_token(arg, t) ==
    IF arg.kind = "Some" THEN get_minecraft_token(arg.value, t) ELSE None

\* lines 97-100
from_cache_result(token) == AuthenticationResult(token, FromCache)

\* lines 246-252
from_login_result(authorization, minecraft) ==
    AuthenticationResult(
        minecraft.access_token,
        FromUserLogin(authorization.access_token, authorization.expires_in))

\* authenticate returns res to main, whose ? ends the program on Err
Return(res) ==
    /\ authenticate_result' = res
    /\ pc' = IF res.kind = "Err" THEN "exit_err" ELSE "main_match"

\* the response to the request to url is consumed and the requests of sent
\* (none or one) are issued
Net(url, sent) ==
    /\ reply' = NoValue
    /\ inflight' = { r \in inflight : r.url # url } \cup { sent[i] : i \in DOMAIN sent }
    /\ calls' = calls \o sent

\* the pipeline stops with an error after printing out and leaving files
Abort(url, error, out, files) ==
    /\ Return(error)
    /\ Net(url, << >>)
    /\ stdout' = out
    /\ fs' = files
    /\ UNCHANGED authLocals

\* lines 91-116: the cache check, then the request for the login page
authenticate_Start ==
    /\ pc = "authenticate"
    /\ LET token == cached_token(cache_argument, now)
           checked ==
               IF cache_argument.kind = "Some"
               THEN Println("Cached token was invalid, generating a new token...", EmptyString)
               ELSE stdout
       IN  CASE token.kind = "panic" ->
                  /\ pc' = "panicked"
                  /\ UNCHANGED << stdout, netVars, authenticate_result >>
             [] token.kind = "Some" ->
                  /\ stdout' = Println("Cached token was valid!", EmptyString)
                  /\ Return(Ok(from_cache_result(token.value)))
                  /\ UNCHANGED netVars
             [] OTHER ->
                  /\ stdout' = Append(checked, [msg |-> "Generating login page...",
                                                arg |-> EmptyString])
                  /\ Net(AUTHORIZE_URL, << AuthorizeRequest >>)
                  /\ pc' = "await_authorize"
                  /\ UNCHANGED authenticate_result
    /\ UNCHANGED << now, fs, mainLocals, authLocals, fs_ops, history >>

\* a remote service answers the request in flight
Remote_Respond ==
    /\ reply = NoValue
    /\ \E req \in inflight : \E resp \in Responses(req.url) : reply' = resp
    /\ UNCHANGED << pc, now, fs, stdout, mainLocals, calls, inflight, authLocals,
                    authenticate_result, fs_ops, history >>

\* lines 117-144: the login page is saved, the user is asked for the code,
\* the code is exchanged
authenticate_LoginPage ==
    /\ pc = "await_authorize"
    /\ reply # NoValue
    /\ \E write \in WriteOutcomes, line \in StdinOutcomes :
         LET login_html == text(reply)
             files == fs_write(fs, INDEX_HTML_PATH, Text(login_html.value), write)
             saved == Println("Saved login page to index.html, please open the file and enter the token generated",
                              EmptyString)
             prompted == Append(saved, [msg |-> "Authorization code: ", arg |-> EmptyString])
         IN  /\ fs_ops' = IF login_html.kind = "Err"
                          THEN fs_ops
                          ELSE Append(fs_ops, FsOp("write", INDEX_HTML_PATH, write))
             /\ CASE login_html.kind = "Err" -> Abort(AUTHORIZE_URL, login_html, stdout, fs)
               [] write # "ok" -> Abort(AUTHORIZE_URL, Err("Io"), stdout, files)
               [] line.kind = "Err" -> Abort(AUTHORIZE_URL, line, prompted, files)
               [] OTHER ->
                    /\ code' = line.value
                    /\ stdout' = prompted
                    /\ fs' = files
                    /\ Net(AUTHORIZE_URL, << TokenRequest(line.value) >>)
                    /\ pc' = "await_token"
                    /\ UNCHANGED << authorization_token, xbox_resp, xbox_security_token_resp,
                                    minecraft_resp, authenticate_result >>
    /\ UNCHANGED << now, mainLocals, history >>

\* lines 145-173: the authorization token is printed, written to a file, read
\* back, and sent to the platform service
authenticate_Token ==
    /\ pc = "await_token"
    /\ reply # NoValue
    /\ \E write \in WriteOutcomes, read \in ReadOutcomes :
         LET resp == json(reply, AuthorizationTokenResponse)
             printed == Println("Access token: {:?}", Quote(resp.value.access_token))
             files == fs_write(fs, AUTHORIZATION_TOKEN_PATH, Json(resp.value), write)
             reread == files[AUTHORIZATION_TOKEN_PATH].value
         IN  /\ fs_ops' = IF resp.kind = "Err"
                          THEN fs_ops
                          ELSE Append(fs_ops, FsOp("write", AUTHORIZATION_TOKEN_PATH, write))
                                   \o (IF write = "ok"
                                       THEN << FsOp("read", AUTHORIZATION_TOKEN_PATH, read) >>
                                       ELSE << >>)
             /\ CASE resp.kind = "Err" -> Abort(TOKEN_URL, resp, stdout, fs)
               [] write # "ok" -> Abort(TOKEN_URL, Err("Io"), printed, files)
               [] read # "ok" -> Abort(TOKEN_URL, Err("Io"), printed, files)
               [] OTHER ->
                    /\ authorization_token' = reread
                    /\ stdout' = Append(printed,
                                        [msg |-> "{:#?}",
                                         arg |-> Quote(RpsTicket(reread.access_token))])
                    /\ fs' = files
                    /\ Net(TOKEN_URL, << XboxRequest(reread.access_token) >>)
                    /\ pc' = "await_xbox"
                    /\ UNCHANGED << code, xbox_resp, xbox_security_token_resp,
                                    minecraft_resp, authenticate_result >>
    /\ UNCHANGED << now, mainLocals, history >>

\* lines 174-195: the platform response is written to a file, the user hash is
\* taken from its claims, the platform token is sent to the security service
authenticate_Xbox ==
    /\ pc = "await_xbox"
    /\ reply # NoValue
    /\ \E write \in WriteOutcomes :
         LET resp == json(reply, XboxLiveAuthenticationResponse)
             files == fs_write(fs, XBOX_TOKEN_PATH, Json(resp.value), write)
         IN  /\ fs_ops' = IF resp.kind = "Err"
                          THEN fs_ops
                          ELSE Append(fs_ops, FsOp("write", XBOX_TOKEN_PATH, write))
             /\ CASE resp.kind = "Err" -> Abort(XBOX_AUTHENTICATE_URL, resp, stdout, fs)
               [] write # "ok" -> Abort(XBOX_AUTHENTICATE_URL, Err("Io"), stdout, files)
               [] user_hash(resp.value).kind = "panic" ->
                    /\ pc' = "panicked"
                    /\ fs' = files
                    /\ Net(XBOX_AUTHENTICATE_URL, << >>)
                    /\ UNCHANGED << stdout, authLocals, authenticate_result >>
               [] OTHER ->
                    /\ xbox_resp' = resp.value
                    /\ stdout' = Println("{:#?}", DebugXbox(resp.value))
                    /\ fs' = files
                    /\ Net(XBOX_AUTHENTICATE_URL, << XstsRequest(resp.value.Token) >>)
                    /\ pc' = "await_xsts"
                    /\ UNCHANGED << code, authorization_token, xbox_security_token_resp,
                                    minecraft_resp, authenticate_result >>
    /\ UNCHANGED << now, mainLocals, history >>

\* lines 196-219: the security response is written to a file, the identity
\* string is sent to the game service
authenticate_Xsts ==
    /\ pc = "await_xsts"
    /\ reply # NoValue
    /\ \E write \in WriteOutcomes :
         LET resp == json(reply, XboxLiveAuthenticationResponse)
             files == fs_write(fs, XBOX_SECURITY_TOKEN_PATH, Json(resp.value), write)
         IN  /\ fs_ops' = IF resp.kind = "Err"
                          THEN fs_ops
                          ELSE Append(fs_ops, FsOp("write", XBOX_SECURITY_TOKEN_PATH, write))
             /\ CASE resp.kind = "Err" -> Abort(XSTS_AUTHORIZE_URL, resp, stdout, fs)
               [] write # "ok" -> Abort(XSTS_AUTHORIZE_URL, Err("Io"), stdout, files)
               [] OTHER ->
                    /\ xbox_security_token_resp' = resp.value
                    /\ stdout' = Println("{:#?}", DebugXbox(resp.value))
                    /\ fs' = files
                    /\ Net(XSTS_AUTHORIZE_URL,
                           << LoginRequest(user_hash(xbox_resp).value, resp.value.Token) >>)
                    /\ pc' = "await_login"
                    /\ UNCHANGED << code, authorization_token, xbox_resp, minecraft_resp,
                                    authenticate_result >>
    /\ UNCHANGED << now, mainLocals, history >>

\* lines 220-235: the game-service response is written to a file, the profile
\* is requested with the new token
authenticate_Login ==
    /\ pc = "await_login"
    /\ reply # NoValue
    /\ \E write \in WriteOutcomes :
         LET resp == json(reply, MinecraftAuthenticationResponse)
             files == fs_write(fs, MINECRAFT_TOKEN_PATH, Json(resp.value), write)
         IN  /\ fs_ops' = IF resp.kind = "Err"
                          THEN fs_ops
                          ELSE Append(fs_ops, FsOp("write", MINECRAFT_TOKEN_PATH, write))
             /\ CASE resp.kind = "Err" -> Abort(LOGIN_WITH_XBOX_URL, resp, stdout, fs)
               [] write # "ok" -> Abort(LOGIN_WITH_XBOX_URL, Err("Io"), stdout, files)
               [] OTHER ->
                    /\ minecraft_resp' = resp.value
                    /\ stdout' = Println("{:#?}", Quote(resp.value.access_token))
                    /\ fs' = files
                    /\ Net(LOGIN_WITH_XBOX_URL, << ProfileRequest(resp.value.access_token) >>)
                    /\ pc' = "await_profile"
                    /\ UNCHANGED << code, authorization_token, xbox_resp,
                                    xbox_security_token_resp, authenticate_result >>
    /\ UNCHANGED << now, mainLocals, history >>

\* lines 236-252: the profile is written to a file and the result is returned
authenticate_Profile ==
    /\ pc = "await_profile"
    /\ reply # NoValue
    /\ \E write \in WriteOutcomes :
         LET resp == json(reply, MinecraftProfileResponse)
             files == fs_write(fs, MINECRAFT_PROFILE_PATH, Json(resp.value), write)
         IN  /\ fs_ops' = IF resp.kind = "Err"
                          THEN fs_ops
                          ELSE Append(fs_ops, FsOp("write", MINECRAFT_PROFILE_PATH, write))
             /\ CASE resp.kind = "Err" -> Abort(PROFILE_URL, resp, stdout, fs)
               [] write # "ok" -> Abort(PROFILE_URL, Err("Io"), stdout, files)
               [] OTHER ->
                    /\ stdout' = Println("{:#?}", Quote(resp.value.id) \o Quote(resp.value.name))
                    /\ fs' = files
                    /\ Net(PROFILE_URL, << >>)
                    /\ Return(Ok(from_login_result(authorization_token, minecraft_resp)))
                    /\ UNCHANGED authLocals
    /\ UNCHANGED << now, mainLocals, history >>

(***************************************************************************)
(* main after authenticate (src/main.rs lines 33-55).                      *)
(***************************************************************************)
retrieve_type == authenticate_result.value.retrieve_type

\* lines 37-46: the new minecraft token is put in the record and the record
\* is written
Main_SaveMinecraftToken ==
    /\ pc = "main_match"
    /\ retrieve_type.tag = "FromUserLogin"
    /\ cache_enabled(config)
    /\ \E write \in WriteOutcomes :
         LET saved == save_minecraft_token(
                          cache, authenticate_result.value.minecraft_token,
                          now + retrieve_type.expires_in * TicksPerSecond)
         IN  /\ cache' = saved
             /\ fs' = Cache_save(saved, fs, write)
             /\ fs_ops' = Append(fs_ops, FsOp("write", CACHE_PATH, write))
             /\ pc' = IF write = "ok" THEN "main_save_microsoft" ELSE "exit_err"
    /\ UNCHANGED << now, stdout, config, fs_cache_exists, netVars, authLocals,
                    authenticate_result, history >>

\* line 47: the microsoft token is put in the record and the record is
\* written again (main names the setter save_microsoft_token; the cache store
\* defines it as save_microsoft_refresh_token)
Main_SaveMicrosoftToken ==
    /\ pc = "main_save_microsoft"
    /\ \E write \in WriteOutcomes :
         LET saved == save_microsoft_refresh_token(cache, retrieve_type.microsoft_token)
         IN  /\ cache' = saved
             /\ fs' = Cache_save(saved, fs, write)
             /\ fs_ops' = Append(fs_ops, FsOp("write", CACHE_PATH, write))
             /\ pc' = IF write = "ok" THEN "main_print" ELSE "exit_err"
    /\ UNCHANGED << now, stdout, config, fs_cache_exists, netVars, authLocals,
                    authenticate_result, history >>

\* lines 35-36 and 41: nothing is saved for FromCache, nor with caching disabled
Main_NoSave ==
    /\ pc = "main_match"
    /\ retrieve_type.tag = "FromCache" \/ ~ cache_enabled(config)
    /\ pc' = "main_print"
    /\ UNCHANGED << now, fs, stdout, mainLocals, netVars, authLocals, authenticate_result,
                    fs_ops, history >>

\* line 52
Main_PrintToken ==
    /\ pc = "main_print"
    /\ stdout' = Println("Got authentication token: {}",
                         authenticate_result.value.minecraft_token)
    /\ pc' = "exit_ok"
    /\ UNCHANGED << now, fs, mainLocals, netVars, authLocals, authenticate_result,
                    fs_ops, history >>

Next ==
    \/ Tick
    \/ Main_GetConfig
    \/ Main_GetCache
    \/ authenticate_Start
    \/ Remote_Respond
    \/ authenticate_LoginPage
    \/ authenticate_Token
    \/ authenticate_Xbox
    \/ authenticate_Xsts
    \/ authenticate_Login
    \/ authenticate_Profile
    \/ Main_SaveMinecraftToken
    \/ Main_SaveMicrosoftToken
    \/ Main_NoSave
    \/ Main_PrintToken

Spec == Init /\ [][Next]_vars

(***************************************************************************)
(* The cache store on its own (src/cache.rs): its operations called in any *)
(* order on one record and one cache file, as main calls them.             *)
(***************************************************************************)
\* "X".repeat(n)
repeat(c, n) == [i \in 1..n |-> c]

\* impl Debug for CachedSessionToken: the token as a run of X of the token's
\* length, the expiry as it is
CachedSessionToken_fmt(self) ==
    << "CachedSessionToken { token: " >> \o Quote(repeat("X", Len(self.token)))
        \o << ", expiry_time: " >> \o Datetime_to_string(self.expiry_time) \o << " }" >>

\* impl Debug for Cache
Cache_fmt(self) ==
    << "Cache { microsoft_refresh_token: " >>
        \o Quote(repeat("X", Len(self.microsoft_refresh_token)))
        \o << ", minecraft_token: " >> \o CachedSessionToken_fmt(self.minecraft_token)
        \o << " }" >>

\* the strings the setters of the store are called with
NewMinecraftTokens == { <<"m", "1">> }
NewRefreshTokens == AccessTokens

\* what no operation of the store touches
storeFrame ==
    << stdout, config, fs_cache_exists, netVars, authLocals, authenticate_result,
       fs_ops, fs_start, previous_run, codecVars >>

InitStore ==
    /\ pc = "store"
    /\ now = 0
    /\ \E cf \in InitialCacheFiles :
         fs = [p \in Paths |-> IF p = CACHE_PATH THEN cf ELSE Absent]
    /\ fs_start = fs
    /\ fs_ops = << >>
    /\ ret = NoCall
    /\ previous_run = NoRun
    /\ CodecIdle
    /\ stdout = << >>
    /\ config = Config_default
    /\ fs_cache_exists = FALSE
    /\ cache = Cache_default
    /\ calls = << >>
    /\ inflight = {}
    /\ reply = NoValue
    /\ code = NoValue
    /\ authorization_token = NoValue
    /\ xbox_resp = NoValue
    /\ xbox_security_token_resp = NoValue
    /\ minecraft_resp = NoValue
    /\ authenticate_result = NoValue

\* Cache::get, then unwrap_or_default as in main: the record of the file, or
\* the default record when there is no file
Store_get ==
    /\ pc = "store"
    /\ \E read \in ReadOutcomes :
         LET fs_cache == Cache_get(fs, read)
         IN  /\ ret' = Returned("get", read_outcome(fs, CACHE_PATH, read), fs_cache)
             /\ cache' = CASE fs_cache.kind = "Err" -> cache
                           [] fs_cache.value.kind = "Some" -> fs_cache.value.value
                           [] OTHER -> Cache_default
    /\ UNCHANGED << pc, now, fs, storeFrame >>

\* Cache::get_minecraft_token at the current instant; a panic ends the process
Store_get_minecraft_token ==
    /\ pc = "store"
    /\ LET token == get_minecraft_token(cache, now)
       IN  /\ ret' = Returned("get_minecraft_token", "none", token)
           /\ pc' = IF token.kind = "panic" THEN "panicked" ELSE pc
    /\ UNCHANGED << now, fs, cache, storeFrame >>

\* Cache::save_minecraft_token with an expiry some seconds after the current
\* instant
Store_save_minecraft_token ==
    /\ pc = "store"
    /\ \E token \in NewMinecraftTokens, expires_in \in ExpiresIn, write \in WriteOutcomes :
         LET saved == save_minecraft_token(cache, token,
                                           now + expires_in * TicksPerSecond)
         IN  /\ cache' = saved
             /\ fs' = Cache_save(saved, fs, write)
             /\ ret' = Returned("save_minecraft_token", write,
                                IF write = "ok" THEN Ok(NoValue) ELSE Err("Io"))
    /\ UNCHANGED << pc, now, storeFrame >>

\* Cache::save_microsoft_refresh_token
Store_save_microsoft_refresh_token ==
    /\ pc = "store"
    /\ \E token \in NewRefreshTokens, write \in WriteOutcomes :
         LET saved == save_microsoft_refresh_token(cache, token)
         IN  /\ cache' = saved
             /\ fs' = Cache_save(saved, fs, write)
             /\ ret' = Returned("save_microsoft_refresh_token", write,
                                IF write = "ok" THEN Ok(NoValue) ELSE Err("Io"))
    /\ UNCHANGED << pc, now, storeFrame >>

\* format!("{:?}", cache)
Store_fmt ==
    /\ pc = "store"
    /\ ret' = Returned("fmt", "none", Cache_fmt(cache))
    /\ UNCHANGED << pc, now, fs, cache, storeFrame >>

NextStore ==
    \/ Tick
    \/ Store_get
    \/ Store_get_minecraft_token
    \/ Store_save_minecraft_token
    \/ Store_save_microsoft_refresh_token
    \/ Store_fmt

SpecStore == InitStore /\ [][NextStore]_vars

(***************************************************************************)
(* 32-bit integers.  An i32 is the integer it denotes; the operations on   *)
(* its bits go through its 32 two's-complement bits, bit 31 being the      *)
(* sign, so that shifts and casts wrap as the machine's do.                *)
(***************************************************************************)
I32_MAX == 2147483647
I32_MIN == (-I32_MAX) - 1

\* bit k of the two's-complement form of the i32 x
bit(x, k) == IF k = 31 THEN (IF x < 0 THEN 1 ELSE 0) ELSE (x \div (2 ^ k)) % 2

RECURSIVE low_bits(_, _)
\* the number whose bits 0..k are those of b
low_bits(b, k) == IF k < 0 THEN 0 ELSE b[k] * (2 ^ k) + low_bits(b, k - 1)

\* the i32 with the 32 bits b
from_bits(b) ==
    IF b[31] = 1 THEN (low_bits(b, 30) - 2 ^ 30) - 2 ^ 30 ELSE low_bits(b, 30)

\* a & b
bit_and(a, b) == from_bits([k \in 0..31 |-> bit(a, k) * bit(b, k)])

\* a | b
bit_or(a, b) == from_bits([k \in 0..31 |-> IF bit(a, k) + bit(b, k) > 0 THEN 1 ELSE 0])

\* x >> k on an i32: the sign bit is copied in
shr(x, k) == x \div (2 ^ k)

\* x << k on an i32: the bits pushed out at the top are lost
shl(x, k) == from_bits([j \in 0..31 |-> IF j >= k THEN bit(x, j - k) ELSE 0])

\* ((x as u32) >> k) as i32: zeros are shifted in
lshr(x, k) == from_bits([j \in 0..31 |-> IF j + k <= 31 THEN bit(x, j + k) ELSE 0])

\* x as u8: the low eight bits
as_u8(x) == x % 256

(***************************************************************************)
(* VarInt (src/protocol/encoding/var_int.rs).                              *)
(***************************************************************************)
\* struct VarInt { inner: [u8; 5] }
VarInt(inner) == [inner |-> inner]

\* n >> 7 with the sign bit copied in
shift_right_7_arithmetic(n) == shr(n, 7)

\* line 52: (n >> 7) & (i32::MAX >> 6)
shift_right_7(n) == bit_and(shr(n, 7), shr(I32_MAX, 6))

RECURSIVE from_loop(_, _, _)
\* lines 45-65: the pass i of the loop and those after it
from_loop(inner, n, i) ==
    LET low == as_u8(bit_and(n, 127))
        shifted == shift_right_7(n)
        temp == IF shifted # 0 THEN bit_or(low, 128) ELSE low
        pushed == [inner EXCEPT ![i + 1] = temp]
    IN  IF shifted = 0 \/ i = 4 THEN pushed ELSE from_loop(pushed, shifted, i + 1)

\* impl From<i32> for VarInt
VarInt_from(value) == VarInt(from_loop(<< 0, 0, 0, 0, 0 >>, value, 0))

RECURSIVE as_slice_loop(_, _, _)
\* lines 20-28: max_index after the pass i of the loop and those after it
as_slice_loop(inner, i, max_index) ==
    IF i = 5 \/ bit_and(inner[i + 1], 128) = 0
    THEN max_index
    ELSE as_slice_loop(inner, i + 1, max_index + 1)

\* as_slice giving the whole buffer
as_slice_whole(self) == Some(self.inner)

\* VarInt::as_slice: &self.inner[0..=max_index], which panics when the range
\* ends past the array
as_slice(self) ==
    LET max_index == as_slice_loop(self.inner, 0, 0)
    IN  IF max_index + 1 > Len(self.inner)
        THEN Panic
        ELSE Some(SubSeq(self.inner, 1, max_index + 1))

RECURSIVE into_loop(_, _, _)
\* lines 75-86: result after the pass i of the loop and those after it
into_loop(inner, result, i) ==
    LET value == bit_and(inner[i + 1], 127)
        joined == bit_or(result, shl(value, 7 * i))
    IN  IF bit_and(inner[i + 1], 128) = 0 \/ i = 4
        THEN joined
        ELSE into_loop(inner, joined, i + 1)

\* the decoder with the sign bit of its result cleared
i32_from_without_sign(self) == bit_and(into_loop(self.inner, 0, 0), I32_MAX)

\* impl From<VarInt> for i32
i32_from(self) == into_loop(self.inner, 0, 0)

(***************************************************************************)
(* get_var_int (src/get_server_info.rs).                                   *)
(***************************************************************************)
\* line 54: (param_int & -128) != 0
more_bytes(p) == bit_and(p, -128) # 0

\* the byte pushed without its continuation bit
continuation_byte_without_flag(p) == as_u8(bit_and(p, 127))

\* line 55: (param_int & 127 | 128) as u8
continuation_byte(p) == as_u8(bit_or(bit_and(p, 127), 128))

(***************************************************************************)
(* The two encoders called on one i32.                                     *)
(***************************************************************************)
\* the values next to a power of 128, where the number of bytes changes
NearGroupEdges ==
    { s * (2 ^ k + d) : s \in { -1, 1 }, k \in { 7, 14, 21, 28 }, d \in { -1, 0, 1 } }

\* the i32 values the encoders are called with
I32Inputs ==
    ((-MaxSmall)..MaxSmall)
        \cup NearGroupEdges
        \cup { 255, 291, 25565, 2 ^ 30, -(2 ^ 30) }
        \cup { I32_MAX, I32_MAX - 1, I32_MIN, I32_MIN + 1 }

\* what no step of the encoders touches
codecFrame ==
    << now, fs, stdout, mainLocals, netVars, authLocals, authenticate_result,
       fs_ops, fs_start, ret, previous_run >>

InitVarInt ==
    /\ pc = "get_var_int"
    /\ i32_value \in I32Inputs
    /\ var_int = NoValue
    /\ slice = NoValue
    /\ i32_back = NoValue
    /\ param_int = i32_value
    /\ bytes = << >>
    /\ now = 0
    /\ fs = [p \in Paths |-> Absent]
    /\ fs_start = fs
    /\ fs_ops = << >>
    /\ ret = NoCall
    /\ previous_run = NoRun
    /\ stdout = << >>
    /\ config = NoValue
    /\ fs_cache_exists = FALSE
    /\ cache = NoValue
    /\ calls = << >>
    /\ inflight = {}
    /\ reply = NoValue
    /\ code = NoValue
    /\ authorization_token = NoValue
    /\ xbox_resp = NoValue
    /\ xbox_security_token_resp = NoValue
    /\ minecraft_resp = NoValue
    /\ authenticate_result = NoValue

\* VarInt::from(value)
Call_VarInt_from ==
    /\ var_int = NoValue
    /\ var_int' = VarInt_from(i32_value)
    /\ UNCHANGED << pc, i32_value, slice, i32_back, param_int, bytes, codecFrame >>

\* var_int.as_slice()
Call_as_slice ==
    /\ var_int # NoValue
    /\ slice = NoValue
    /\ slice' = as_slice(var_int)
    /\ UNCHANGED << pc, i32_value, var_int, i32_back, param_int, bytes, codecFrame >>

\* i32::from(var_int)
Call_i32_from ==
    /\ var_int # NoValue
    /\ i32_back = NoValue
    /\ i32_back' = Some(i32_from(var_int))
    /\ UNCHANGED << pc, i32_value, var_int, slice, param_int, bytes, codecFrame >>

\* get_var_int lines 54-57: one pass of the while loop
get_var_int_Push ==
    /\ pc = "get_var_int"
    /\ more_bytes(param_int)
    /\ bytes' = Append(bytes, continuation_byte(param_int))
    /\ param_int' = lshr(param_int, 7)
    /\ UNCHANGED << pc, i32_value, var_int, slice, i32_back, codecFrame >>

\* get_var_int lines 58-60: the last byte is pushed and bytes is returned
get_var_int_Return ==
    /\ pc = "get_var_int"
    /\ ~ more_bytes(param_int)
    /\ bytes' = Append(bytes, as_u8(param_int))
    /\ pc' = "returned"
    /\ UNCHANGED << i32_value, var_int, slice, i32_back, param_int, codecFrame >>

NextVarInt ==
    \/ Call_VarInt_from
    \/ Call_as_slice
    \/ Call_i32_from
    \/ get_var_int_Push
    \/ get_var_int_Return

SpecVarInt == InitVarInt /\ [][NextVarInt]_vars

(***************************************************************************)
(* Two runs of the program, one after the other, on the same files: the    *)
(* second process starts with fresh locals and finds what the first left   *)
(* on disk.                                                                *)
(***************************************************************************)
\* what the second run's history keeps of the first: what authenticate
\* returned to it, and the instant the second run started
Run(res, started) == [kind |-> "run", authenticate_result |-> res, started |-> started]

\* a run that logged in and saved its tokens has ended (both writes done,
\* line 52 printed); the program is started again: main begins with nothing
\* but the files and the clock
Main_Restart ==
    /\ pc = "exit_ok"
    /\ retrieve_type.tag = "FromUserLogin"
    /\ cache_enabled(config)
    /\ previous_run = NoRun
    /\ previous_run' = Run(authenticate_result, now)
    /\ pc' = "main"
    /\ stdout' = << >>
    /\ config' = NoValue
    /\ fs_cache_exists' = FALSE
    /\ cache' = NoValue
    /\ calls' = << >>
    /\ inflight' = {}
    /\ reply' = NoValue
    /\ code' = NoValue
    /\ authorization_token' = NoValue
    /\ xbox_resp' = NoValue
    /\ xbox_security_token_resp' = NoValue
    /\ minecraft_resp' = NoValue
    /\ authenticate_result' = NoValue
    /\ fs_ops' = << >>
    /\ fs_start' = fs
    /\ UNCHANGED << now, fs, ret, codecVars >>

NextRuns ==
    \/ Next
    \/ Main_Restart

SpecRuns == Init /\ [][NextRuns]_vars

(***************************************************************************)
(* Vocabulary of the properties.                                           *)
(***************************************************************************)
AwaitPositions ==
    { "await_authorize", "await_token", "await_xbox", "await_xsts", "await_login",
      "await_profile" }
\* the positions at which the program is inside authenticate
AuthenticatePositions == { "authenticate" } \cup AwaitPositions

Last(seq) == seq[Len(seq)]
\* the endpoints of the requests issued so far, in order
Urls == [i \in DOMAIN calls |-> calls[i].url]
CallsTo(url) == { i \in DOMAIN calls : calls[i].url = url }
\* how many times msg has been printed
Printed(msg) == Cardinality({ i \in DOMAIN stdout : stdout[i].msg = msg })

ReturnedFromCache ==
    /\ authenticate_result.kind = "Ok"
    /\ authenticate_result.value.retrieve_type.tag = "FromCache"
ReturnedFromLogin ==
    /\ authenticate_result.kind = "Ok"
    /\ authenticate_result.value.retrieve_type.tag = "FromUserLogin"

\* this step consumes the response to the request awaited at position at
Consumes(at) == pc = at /\ reply # NoValue /\ reply' = NoValue

(***************************************************************************)
(* C1: when authenticate is given a cache whose session token is valid     *)
(* (expiry strictly after the current instant), it returns FromCache with  *)
(* exactly the stored token, and a FromCache outcome comes with no remote  *)
(* call issued.                                                            *)
(***************************************************************************)
C1_ValidCacheReturnsFromCache ==
    [][ /\ ( /\ pc = "authenticate"
             /\ pc' # "authenticate"
             /\ fs_cache_exists
             /\ cache.minecraft_token.expiry_time.has_offset
             /\ cache.minecraft_token.expiry_time.secs * TicksPerSecond > now )
          => /\ authenticate_result' =
                    Ok(AuthenticationResult(cache.minecraft_token.token, FromCache))
             /\ calls' = << >>
             /\ inflight' = {}
        /\ ( /\ authenticate_result'.kind = "Ok"
             /\ authenticate_result'.value.retrieve_type.tag = "FromCache" )
          => calls' = << >> /\ inflight' = {}
      ]_vars

C1_Witness ==
    /\ ReturnedFromCache
    /\ authenticate_result.value.minecraft_token \in StoredMinecraftTokens
    /\ pc = "exit_ok"

(***************************************************************************)
(* C2: given a cache with an expired session token and a non-empty refresh *)
(* credential, the user is never asked for a code and the one token        *)
(* exchange issued is a refresh-grant exchange, which comes before the     *)
(* platform-auth step.                                                     *)
(***************************************************************************)
C2_ExpiredCacheUsesRefreshGrant ==
    ( /\ fs_cache_exists
      /\ pc \in AwaitPositions
      /\ get_microsoft_refresh_token(cache) # EmptyString )
    => /\ Printed("Authorization code: ") = 0
       /\ Cardinality(CallsTo(TOKEN_URL)) <= 1
       /\ \A i \in CallsTo(TOKEN_URL) : calls[i].form.grant_type = "refresh_token"
       /\ CallsTo(XBOX_AUTHENTICATE_URL) # {} => CallsTo(TOKEN_URL) # {}

(***************************************************************************)
(* C3: given no cache, authenticate enters interactive code acquisition    *)
(* exactly once (one login page requested, the user asked at most once and *)
(* asked before any token exchange), and the token exchange uses the       *)
(* authorization_code grant with the line read from the user.              *)
(***************************************************************************)
C3_NoCacheInteractiveOnce ==
    ( /\ ~ fs_cache_exists
      /\ pc \in AwaitPositions \/ authenticate_result # NoValue \/ pc = "panicked" )
    => /\ Printed("Generating login page...") = 1
       /\ Cardinality(CallsTo(AUTHORIZE_URL)) = 1
       /\ Printed("Authorization code: ") <= 1
       /\ Cardinality(CallsTo(TOKEN_URL)) <= 1
       /\ \A i \in CallsTo(TOKEN_URL) :
            /\ Printed("Authorization code: ") = 1
            /\ code \in StdinLines
            /\ calls[i].form.grant_type = "authorization_code"
            /\ calls[i].form.code = code
       /\ ReturnedFromLogin => Cardinality(CallsTo(TOKEN_URL)) = 1

C3_Witness ==
    /\ ~ fs_cache_exists
    /\ ReturnedFromLogin
    /\ code = <<"c", "1", "\n">>
    /\ CallsTo(TOKEN_URL) # {}

SixCalls ==
    << AUTHORIZE_URL, TOKEN_URL, XBOX_AUTHENTICATE_URL, XSTS_AUTHORIZE_URL,
       LOGIN_WITH_XBOX_URL, PROFILE_URL >>

FieldsAt(at) ==
    CASE at = "await_token" -> AuthorizationTokenResponse
      [] at = "await_login" -> MinecraftAuthenticationResponse
      [] OTHER -> XboxLiveAuthenticationResponse

\* a failed exchange: no response, a non-success status, a body that does not
\* decode, or a platform response without the user hash
ExchangeFailed(resp, at) ==
    \/ resp.kind = "transport_error"
    \/ resp.status \notin 200..299
    \/ json(resp, FieldsAt(at)).kind = "Err"
    \/ at = "await_xbox" /\ user_hash(resp.body.value).kind = "panic"

(***************************************************************************)
(* C5: when one of the exchanges (token, platform auth, security-token     *)
(* auth, service login) fails, authenticate returns an error to the caller *)
(* at once: no FromCache or FromLogin outcome and no further request.      *)
(***************************************************************************)
C5_FailedExchangeAborts ==
    [][ \A at \in { "await_token", "await_xbox", "await_xsts", "await_login" } :
          (Consumes(at) /\ ExchangeFailed(reply, at))
            => /\ authenticate_result'.kind = "Err"
               /\ pc' = "exit_err"
               /\ calls' = calls
      ]_vars

(***************************************************************************)
(* C6: when the platform-auth response decodes but has no user hash at     *)
(* xui[0].uhs, authenticate returns an error to the caller (MissingClaim,  *)
(* or the failure to write the response file that precedes the lookup)     *)
(* and issues no further request.                                          *)
(***************************************************************************)
C6_MissingClaimIsReturnedError ==
    [][ ( /\ Consumes("await_xbox")
          /\ json(reply, XboxLiveAuthenticationResponse).kind = "Ok"
          /\ user_hash(reply.body.value).kind = "panic" )
        => /\ authenticate_result'.kind = "Err"
           /\ authenticate_result'.error \in { "MissingClaim", "Io" }
           /\ pc' = "exit_err"
           /\ calls' = calls
      ]_vars

(***************************************************************************)
(* C7: a FromLogin outcome carries the refresh_token of the token exchange *)
(* as its refresh credential, the expires_in of the service-login response *)
(* as its expires_in, and the access_token of the service-login response   *)
(* as the terminal token.                                                  *)
(***************************************************************************)
C7_FromLoginCarriesRefreshAndExpiry ==
    ReturnedFromLogin =>
        /\ authenticate_result.value.retrieve_type.microsoft_token =
               authorization_token.refresh_token
        /\ authenticate_result.value.retrieve_type.expires_in = minecraft_resp.expires_in
        /\ authenticate_result.value.minecraft_token = minecraft_resp.access_token

(***************************************************************************)
(* C8: each request embeds the secret of the response just received: the   *)
(* platform-auth request carries "d=" and the access token of the token    *)
(* response; the security-token request carries the token of the platform  *)
(* response; the service-login request carries "XBL3.0 x=", the user hash  *)
(* of the platform response of this run, ";", and the token of the         *)
(* security-token response.                                                *)
(***************************************************************************)
C8_PayloadsEmbedPreviousSecrets ==
    [][ /\ (pc = "await_token" /\ pc' = "await_xbox")
          => /\ Last(calls').url = XBOX_AUTHENTICATE_URL
             /\ Last(calls').json.Properties.RpsTicket =
                    <<"d", "=">> \o reply.body.value.access_token
        /\ (pc = "await_xbox" /\ pc' = "await_xsts")
          => /\ Last(calls').url = XSTS_AUTHORIZE_URL
             /\ Last(calls').json.Properties.UserTokens = << reply.body.value.Token >>
             /\ xbox_resp' = reply.body.value
        /\ (pc = "await_xsts" /\ pc' = "await_login")
          => /\ Last(calls').url = LOGIN_WITH_XBOX_URL
             /\ Last(calls').json.identityToken =
                    <<"X", "B", "L", "3", ".", "0", " ", "x", "=">>
                        \o xbox_resp.DisplayClaims.xui[1].uhs
                        \o <<";">>
                        \o reply.body.value.Token
        /\ (calls' # calls /\ Last(calls').url = LOGIN_WITH_XBOX_URL) => pc = "await_xsts"
      ]_vars

C8_Witness ==
    /\ CallsTo(LOGIN_WITH_XBOX_URL) # {}
    /\ pc = "await_login"
    /\ Last(calls).json.identityToken =
           <<"X", "B", "L", "3", ".", "0", " ", "x", "=", "h", "1", ";", "s", "1">>

(***************************************************************************)
(* C9: no step taken inside authenticate, whatever its outcome, changes    *)
(* the persisted cache record.                                             *)
(***************************************************************************)
C9_AuthenticateLeavesCacheFile ==
    [][ (pc \in AuthenticatePositions) => (fs'[CACHE_PATH] = fs[CACHE_PATH])
      ]_vars

C9_Witness ==
    /\ pc = "main_match"
    /\ ReturnedFromLogin
    /\ fs_cache_exists
    /\ fs[CACHE_PATH] = Toml(to_string_pretty(cache))
    /\ fs[MINECRAFT_TOKEN_PATH].kind = "json"

\* the token values a file holds
TokensIn(content) ==
    CASE content.kind = "json" ->
           { content.value[f] :
               f \in DOMAIN content.value \cap { "access_token", "refresh_token", "Token" } }
      [] content.kind = "toml" /\ "minecraft_token" \in DOMAIN content.value ->
           { string_from_toml(content.value.microsoft_refresh_token).value,
             string_from_toml(content.value.minecraft_token.token).value }
      [] OTHER -> {}

IntermediateTokens == AccessTokens \cup XboxTokens \cup XstsTokens

(***************************************************************************)
(* C10: no file ever holds an intermediate token (identity-provider access *)
(* token, platform token, security token).                                 *)
(***************************************************************************)
C10_NoIntermediateTokenOnDisk ==
    \A p \in Paths : TokensIn(fs[p]) \cap IntermediateTokens = {}

\* the positions in the log of the operations op on the cache file
CacheOps(op) ==
    { i \in DOMAIN fs_ops : fs_ops[i].op = op /\ fs_ops[i].path = CACHE_PATH }

\* the run is over without a token: main returned an error or the process
\* panicked
RunFailed == pc \in { "exit_err", "panicked" }

(***************************************************************************)
(* C11: in every run the cache file is read at most once and written at    *)
(* most once, and it is written only by main after authenticate returned.  *)
(***************************************************************************)
C11_CacheReadOnceWrittenOnce ==
    /\ Cardinality(CacheOps("read")) <= 1
    /\ Cardinality(CacheOps("write")) <= 1
    /\ CacheOps("write") # {} =>
         authenticate_result # NoValue /\ pc \notin AuthenticatePositions

(***************************************************************************)
(* C12: the cache file is written only when caching is enabled in the      *)
(* config and authenticate returned FromLogin (so never after FromCache    *)
(* and never in a run whose pipeline failed); with caching disabled it is  *)
(* neither read nor written; the file changes only through such a write.   *)
(***************************************************************************)
C12_CacheWrittenOnlyAfterLogin ==
    /\ CacheOps("write") # {} =>
         /\ config # NoValue
         /\ config.cache_enabled
         /\ ReturnedFromLogin
    /\ (config # NoValue /\ ~ config.cache_enabled) =>
         CacheOps("read") \cup CacheOps("write") = {}
    /\ fs[CACHE_PATH] # fs_start[CACHE_PATH] => CacheOps("write") # {}

C12_Witness ==
    /\ pc = "exit_ok"
    /\ ReturnedFromLogin
    /\ Cardinality(CacheOps("read")) = 1
    /\ \E i \in CacheOps("write") : fs_ops[i].outcome = "ok"
    /\ fs[CACHE_PATH] # fs_start[CACHE_PATH]

(***************************************************************************)
(* C13: when a run ends in failure, the cache file holds what it held when *)
(* the run started.                                                        *)
(***************************************************************************)
C13_FailedRunLeavesCacheFile ==
    RunFailed => fs[CACHE_PATH] = fs_start[CACHE_PATH]

(***************************************************************************)
(* C14: persisting is atomic: whenever the content of the cache file       *)
(* changes, the new content is the complete text of the record being       *)
(* saved, so a reader sees the previous record or the new one and nothing  *)
(* else.                                                                   *)
(***************************************************************************)
C14_CacheWriteIsAtomic ==
    [][ (fs'[CACHE_PATH] # fs[CACHE_PATH])
          => (fs'[CACHE_PATH] = Toml(to_string_pretty(cache')))
      ]_vars

(***************************************************************************)
(* C15: for a record whose expiry is an instant, get_minecraft_token at    *)
(* the instant now returns the stored token unchanged when expiry > now    *)
(* and nothing when expiry <= now, equality included; it never fails.      *)
(***************************************************************************)
C15_TokenValidUntilExpiry ==
    [][ ( /\ ret'.op = "get_minecraft_token"
          /\ now' = now
          /\ cache.minecraft_token.expiry_time.has_offset )
        => ret'.result =
               IF cache.minecraft_token.expiry_time.secs * TicksPerSecond > now
               THEN Some(cache.minecraft_token.token)
               ELSE None
      ]_vars

C15_Witness ==
    /\ ret.op = "get_minecraft_token"
    /\ ret.result = None
    /\ cache.minecraft_token.token \in NewMinecraftTokens
    /\ cache.minecraft_token.expiry_time.has_offset
    /\ cache.minecraft_token.expiry_time.secs * TicksPerSecond = now

\* the operations of the store that persist the record
SaveOps == { "save_minecraft_token", "save_microsoft_refresh_token" }

(***************************************************************************)
(* C16: a record built by the store's operations and persisted is loaded   *)
(* back equal in every field: a Cache::get that reads the file right after *)
(* a successful save returns the record that was saved.                    *)
(***************************************************************************)
C16_SaveThenGetRoundTrip ==
    [][ ( /\ ret.op \in SaveOps
          /\ ret.result.kind = "Ok"
          /\ ret'.op = "get"
          /\ ret'.io = "ok" )
        => /\ ret'.result = Ok(Some(cache))
           /\ cache' = cache
      ]_vars

C16_Witness ==
    /\ ret.op = "get"
    /\ ret.result = Ok(Some(cache))
    /\ cache.microsoft_refresh_token \in NewRefreshTokens
    /\ cache.minecraft_token.token \in NewMinecraftTokens
    /\ cache.minecraft_token.expiry_time = TomlDatetime(1, TRUE)
    /\ now = 1

\* the cache file holds a document whose timestamp is one of the file format
WellFormed(content) ==
    /\ content.kind = "toml"
    /\ Len(content.value.minecraft_token.expiry_time) >= 1

(***************************************************************************)
(* C17: Cache::get gives Ok(None) exactly when the file is absent, a       *)
(* decode error when the file is there but malformed, the decoded record   *)
(* when it is well-formed, and an error (never "no cache") when the file   *)
(* is there and cannot be read.                                            *)
(***************************************************************************)
C17_GetOutcomes ==
    ret.op = "get" =>
        /\ ret.result = Ok(None) <=> fs[CACHE_PATH].kind = "absent"
        /\ ret.io = "denied" => ret.result = Err("Io")
        /\ (ret.io = "ok" /\ ~ WellFormed(fs[CACHE_PATH])) => ret.result = Err("Decode")
        /\ (ret.io = "ok" /\ WellFormed(fs[CACHE_PATH])) =>
             /\ ret.result.kind = "Ok"
             /\ ret.result.value.kind = "Some"
             /\ Toml(to_string_pretty(ret.result.value.value)) = fs[CACHE_PATH]

C17_Witness ==
    /\ ret.op = "get"
    /\ ret.io = "denied"
    /\ ret.result = Err("Io")
    /\ fs[CACHE_PATH].kind = "toml"

(***************************************************************************)
(* C18: the Debug text of a cache record is the same for every record with *)
(* the same expiry, whatever the values and lengths of its two secrets.    *)
(***************************************************************************)
C18_DebugTextIndependentOfSecrets ==
    ret.op = "fmt" =>
        \A r \in StoredRefreshTokens, t \in StoredMinecraftTokens :
            Cache_fmt(Cache(r, CachedSessionToken(t, cache.minecraft_token.expiry_time)))
                = ret.result

\* text t occurs in text s
Contains(s, t) ==
    \E k \in 0..(Len(s) - Len(t)) : SubSeq(s, k + 1, k + Len(t)) = t

\* the token values of a run
TokenValues ==
    AccessTokens \cup RefreshTokens \cup XboxTokens \cup XstsTokens
        \cup MinecraftTokens \cup StoredMinecraftTokens

(***************************************************************************)
(* C19: no token value (access or refresh token of the identity provider,  *)
(* platform token, security token, terminal service token) is ever printed *)
(* to the console.                                                         *)
(***************************************************************************)
C19_NoTokenOnConsole ==
    \A i \in DOMAIN stdout : \A t \in TokenValues : ~ Contains(stdout[i].arg, t)

(***************************************************************************)
(* C20: whatever the cache file holds, the program does not panic because  *)
(* of it: the expiry check that authenticate starts with yields a token or *)
(* nothing, a record with an expiry_time lacking the UTC offset having     *)
(* been refused by Cache::get with a decode error.                         *)
(***************************************************************************)
C20_CacheFileNeverPanics ==
    [][ (pc = "authenticate") => (pc' # "panicked") ]_vars

(***************************************************************************)
(* The var-int encoders.                                                   *)
(***************************************************************************)
\* C21: for every i32 value v, negative values, i32::MIN and i32::MAX
\* included, decoding the VarInt that encoding v produced gives v again:
\* i32::from(VarInt::from(v)) = v.
C21_DecodeAfterEncode ==
    (i32_back # NoValue) => (var_int = VarInt_from(i32_value) /\ i32_back = Some(i32_value))

C21_Witness ==
    /\ i32_value = I32_MIN
    /\ var_int = VarInt(<< 128, 128, 128, 128, 8 >>)
    /\ i32_back = Some(I32_MIN)

\* group j (from 0, least significant first) of the 32 bits of v read as an
\* unsigned number: seven bits, the fifth group holding the four left over
group(v, j) == IF j < 4 THEN (v \div (128 ^ j)) % 128 ELSE (v \div (2 ^ 28)) % 16

\* the number of groups up to the last non-zero one, one group for v = 0
groups(v) ==
    CHOOSE len \in 1..5 :
        /\ \A j \in len..4 : group(v, j) = 0
        /\ len > 1 => group(v, len - 1) # 0

\* C22: for every i32 value v, VarInt::from(v).as_slice() is the minimal
\* var-int encoding of v as an unsigned 32-bit value: 1 to 5 bytes, seven
\* value bits per byte with the least significant group first, the most
\* significant bit set on every byte but the last, no trailing zero group
\* (the single byte 0 for v = 0), and the unused bytes of the buffer zero.
C22_MinimalEncoding ==
    (slice # NoValue) =>
        /\ slice.kind = "Some"
        /\ Len(slice.value) \in 1..5
        /\ Len(slice.value) = groups(i32_value)
        /\ \A j \in 1..Len(slice.value) :
             slice.value[j] =
                 group(i32_value, j - 1) + (IF j < Len(slice.value) THEN 128 ELSE 0)
        /\ \A j \in (Len(slice.value) + 1)..5 : var_int.inner[j] = 0

C22_Witness ==
    /\ i32_value = 25565
    /\ var_int = VarInt(<< 221, 199, 1, 0, 0 >>)
    /\ slice = Some(<< 221, 199, 1 >>)

\* C24: every VarInt produced by VarInt::from(v) has a byte whose most
\* significant bit is clear among its five bytes, the fifth byte never having
\* it set, so that as_slice stops at an index of at most 4 and never slices
\* past the buffer.
C24_SliceStaysInBuffer ==
    /\ (var_int # NoValue) =>
          /\ Len(var_int.inner) = 5
          /\ var_int.inner[5] < 128
          /\ as_slice_loop(var_int.inner, 0, 0) <= 4
    /\ (slice # NoValue) => (slice # Panic /\ Len(slice.value) <= 5)

C24_Witness ==
    /\ i32_value = -1
    /\ var_int = VarInt(<< 255, 255, 255, 255, 15 >>)
    /\ slice = Some(var_int.inner)

\* C25: the two var-int encoders agree: for every i32 value v the bytes
\* returned by get_var_int(v) are those of VarInt::from(v).as_slice(), and
\* both loops end after at most 5 bytes.
C25_EncodersAgree ==
    /\ Len(bytes) <= 5
    /\ (pc = "get_var_int" /\ more_bytes(param_int)) => Len(bytes) < 4
    /\ (pc = "returned" /\ slice # NoValue) => slice = Some(bytes)
    /\ (pc = "returned") => bytes = SubSeq(VarInt_from(i32_value).inner, 1, Len(bytes))

C25_Witness ==
    /\ pc = "returned"
    /\ i32_value = I32_MIN + 1
    /\ bytes = << 129, 128, 128, 128, 8 >>
    /\ slice = Some(bytes)

(***************************************************************************)
(* Two runs in a row.                                                      *)
(***************************************************************************)
\* this is the second run, after a run that logged in and saved its tokens
AfterPersistingRun == previous_run # NoRun

\* the terminal token of the first run
PreviousToken == previous_run.authenticate_result.value.minecraft_token

\* the record the cache file held when this run started
PersistedRecord == from_str(fs_start[CACHE_PATH].value).value

\* the expiry of that record as an instant of the clock
PersistedExpiry == PersistedRecord.minecraft_token.expiry_time.secs * TicksPerSecond

\* this step is the first save of a run
SavesMinecraftToken == pc = "main_match" /\ pc' = "main_save_microsoft"

\* this step is the comparison of the cached expiry with the clock
ChecksCachedToken == pc = "authenticate" /\ pc' # "authenticate"

\* C23 as stated: after a run that ends in FromLogin with caching enabled and
\* all cache writes succeeding, the persisted record holds the terminal
\* token of that run with expiry equal to the persist instant plus the
\* returned expires_in seconds; a following run started with caching enabled
\* before that expiry returns FromCache with the same terminal token and
\* issues no remote call, and one started at or after that expiry does not
\* return FromCache.
C23_NextRunFromCacheUntilExpiry ==
    [][ /\ SavesMinecraftToken =>
             /\ cache'.minecraft_token.token = authenticate_result.value.minecraft_token
             /\ cache'.minecraft_token.expiry_time.secs * TicksPerSecond
                    = now + retrieve_type.expires_in * TicksPerSecond
        /\ Main_Restart =>
             /\ fs[CACHE_PATH] = Toml(to_string_pretty(cache))
             /\ cache.minecraft_token.token = authenticate_result.value.minecraft_token
        /\ (AfterPersistingRun /\ ChecksCachedToken) =>
             IF previous_run.started < PersistedExpiry
             THEN /\ authenticate_result' = Ok(from_cache_result(PreviousToken))
                  /\ calls' = << >>
             ELSE authenticate_result' = NoValue
      ]_vars

\* C23, amended: the persisted expiry is the persist instant plus expires_in
\* seconds cut down to a whole second, and what decides is the instant at
\* which the following run compares that expiry with its clock (after it has
\* read its two files), not the instant at which it started: compared before
\* the expiry, the run returns FromCache with the same terminal token and
\* issues no remote call; compared at or after it, the run does not return
\* FromCache.
C23_NextRunFromCacheUntilStoredExpiry ==
    [][ /\ SavesMinecraftToken =>
             /\ cache'.minecraft_token.token = authenticate_result.value.minecraft_token
             /\ cache'.minecraft_token.expiry_time.has_offset
             /\ cache'.minecraft_token.expiry_time.secs
                    = (now + retrieve_type.expires_in * TicksPerSecond) \div TicksPerSecond
        /\ Main_Restart =>
             /\ fs[CACHE_PATH] = Toml(to_string_pretty(cache))
             /\ cache.minecraft_token.token = authenticate_result.value.minecraft_token
        /\ (AfterPersistingRun /\ ChecksCachedToken) =>
             /\ cache_enabled(config)
             /\ cache = PersistedRecord
             /\ IF now < PersistedExpiry
                THEN /\ authenticate_result' = Ok(from_cache_result(PreviousToken))
                     /\ calls' = << >>
                ELSE authenticate_result' = NoValue
        /\ (AfterPersistingRun /\ ReturnedFromCache) => (calls' = << >> /\ fs' = fs)
      ]_vars

\* the second run has ended with the token the first run saved, taken from
\* the cache, although the first run saved it in the middle of a second
C23_Witness ==
    /\ AfterPersistingRun
    /\ pc = "exit_ok"
    /\ ReturnedFromCache
    /\ authenticate_result.value.minecraft_token = PreviousToken
    /\ calls = << >>
    /\ now < PersistedExpiry
    /\ previous_run.started % TicksPerSecond # 0

====
